---- MODULE Spec2Model ----
(***************************************************************************)
(* Model of pkg/services/ngalert/eval/eval.go: Condition.IsValid,          *)
(* Condition.Execute, EvaluateExecutionResult and results.AsDataFrame.     *)
(*                                                                         *)
(* Three specifications share the variables:                               *)
(*   SpecExec   one invocation of Condition.Execute on a drawn Condition,  *)
(*              against a transform backend whose answer is drawn;         *)
(*   SpecEval   one invocation of EvaluateExecutionResult on drawn frames; *)
(*   SpecFrame  one invocation of results.AsDataFrame on drawn results.    *)
(***************************************************************************)
EXTENDS Integers, Sequences, FiniteSets, TLC

VARIABLES
    pc,              \* position of the caller: "ready" before the call, "done" after it
    cond,            \* the Condition Execute is invoked on
    pbQuery,         \* Queries of the pluginv2.QueryDataRequest built by Execute
    transformCalls,  \* number of TransformData calls made by the invocation
    transformErr,    \* error returned by TransformData (Nil when none, or not called)
    pbRes,           \* pbRes.Responses returned by TransformData
    decoded,         \* refIDs whose frames Execute decoded (df.Decoded() calls)
    execRet,         \* first return value of Execute (*executionResults)
    execErr,         \* second return value of Execute (error)
    execIn,          \* Results of the executionResults handed to EvaluateExecutionResult
    evalOut,         \* outcome of EvaluateExecutionResult
    evalResults,     \* receiver of AsDataFrame
    dataFrame        \* data.Frame returned by AsDataFrame

vars == <<pc, cond, pbQuery, transformCalls, transformErr, pbRes, decoded,
          execRet, execErr, execIn, evalOut, evalResults, dataFrame>>

----------------------------------------------------------------------------
(* Bounds of the model *)

MaxQueries == 2   \* queries per Condition
MaxPayload == 2   \* encoded frames per response entry
MaxFrames  == 2   \* frames per executionResults
MaxRows    == 2   \* rows per field
MaxResults == 2   \* results handed to AsDataFrame

SeqUpTo(S, n) == UNION {[1..k -> S] : k \in 0..n}

\* the nil error
Nil == "nil"

----------------------------------------------------------------------------
(* Data frames of grafana-plugin-sdk-go/data, as far as eval.go reads them *)

normal   == "Normal"
Alerting == "Alerting"

FieldTypeNullableFloat64 == "[]*float64"
FieldTypeString          == "[]string"
FieldTypeBool            == "[]bool"

\* an element of a []*float64 vector: a nil pointer or a pointer to v
NilCell    == [isNil |-> TRUE, v |-> 0]
Cell(v)    == [isNil |-> FALSE, v |-> v]

Field(name, labels, type, vector) ==
    [Name |-> name, Labels |-> labels, Type |-> type, vector |-> vector]

Frame(name, fields) == [Name |-> name, Fields |-> fields]

\* data.Labels is a map[string]string; the keys in sorted order
LabelKeys == <<"a", "b">>

NoLabels == [k \in {} |-> ""]
LabelsA1 == [k \in {"a"} |-> "1"]
LabelsA2 == [k \in {"a"} |-> "2"]
LabelsA1B2 == [k \in {"a", "b"} |-> IF k = "a" THEN "1" ELSE "2"]
LabelsAComma == [k \in {"a"} |-> "1, b=2"]

LabelSets == {NoLabels, LabelsA1, LabelsA2, LabelsA1B2, LabelsAComma}

\* Labels.String(): "k=v" for every key in sorted order, joined by ", "
RECURSIVE LabelsJoin(_, _, _)
LabelsJoin(l, i, first) ==
    IF i > Len(LabelKeys) THEN ""
    ELSE IF LabelKeys[i] \notin DOMAIN l THEN LabelsJoin(l, i + 1, first)
    ELSE (IF first THEN "" ELSE ", ") \o LabelKeys[i] \o "=" \o l[LabelKeys[i]]
         \o LabelsJoin(l, i + 1, FALSE)

LabelsString(l) == LabelsJoin(l, 1, TRUE)

----------------------------------------------------------------------------
(* Condition and the request built from it *)

RefIDs == {"A", "B"}

\* a backend.DataQuery; Interval is a time.Duration in nanoseconds, From and
\* To are the instants of the TimeRange as UnixNano()
DataQuery(refID, json, interval, maxDataPoints, queryType, from, to) ==
    [RefID |-> refID, JSON |-> json, Interval |-> interval,
     MaxDataPoints |-> maxDataPoints, QueryType |-> queryType,
     From |-> from, To |-> to]

Queries ==
    {DataQuery(r, "{\"q\":\"up\"}", 1500000000, 100, "", -1500001, 1999999) : r \in RefIDs}
    \cup
    {DataQuery(r, "{\"q\":\"math\"}", -1999999, 43200, "math", -1, 0) : r \in RefIDs}

Conditions ==
    [RefID : RefIDs, QueriesAndExpressions : SeqUpTo(Queries, MaxQueries)]

\* IsValid with the comparison slipped to >= 0: every Condition passes
IsValidNoCheck(c) == Len(c.QueriesAndExpressions) >= 0

\* Condition.IsValid
IsValid(c) == Len(c.QueriesAndExpressions) # 0

NanosPerMilli == 1000000

Abs(n) == IF n < 0 THEN -n ELSE n

\* division rounding toward minus infinity instead of toward zero
GoDivFloor(a, b) == a \div b

\* Go's integer division a / b for b > 0: the quotient is truncated toward zero
GoDiv(a, b) == IF a >= 0 THEN a \div b ELSE -((-a) \div b)

\* time.Duration.Milliseconds()
Milliseconds(d) == GoDiv(d, NanosPerMilli)

\* the pluginv2.DataQuery appended for q
PbDataQuery(q) ==
    [Json |-> q.JSON,
     IntervalMS |-> Milliseconds(q.Interval),
     RefId |-> q.RefID,
     MaxDataPoints |-> q.MaxDataPoints,
     QueryType |-> q.QueryType,
     TimeRange |-> [FromEpochMS |-> GoDiv(q.From, NanosPerMilli),
                    ToEpochMS   |-> GoDiv(q.To, NanosPerMilli)]]

\* the loop building pbQuery.Queries, in the order of c.QueriesAndExpressions
BuildQueries(c) ==
    [i \in 1..Len(c.QueriesAndExpressions) |-> PbDataQuery(c.QueriesAndExpressions[i])]

----------------------------------------------------------------------------
(* The transform backend's answer and its decoding *)

\* one Arrow-encoded frame of a response entry
EncodedFrames == {"arrow:a1=0", "arrow:a2=5", "arrow:corrupt"}

Payloads == SeqUpTo(EncodedFrames, MaxPayload)

EmptyResponses == [r \in {} |-> <<>>]

ResponseMaps == UNION {[D -> Payloads] : D \in SUBSET RefIDs}

ErrInvalidConditions == "invalid conditions"
ErrNoResults == "no GEL results"
ErrDecode == "arrow: cannot unmarshal frame"
TransformErrors == {"context canceled", "plugin unavailable"}

\* what TransformData returns: an error and no response, or a response
TransformOutcomes ==
    {[err |-> e, Responses |-> EmptyResponses] : e \in TransformErrors}
    \cup {[err |-> Nil, Responses |-> m] : m \in ResponseMaps}

\* the frame an encoded frame unmarshals to
DecodeFrame(enc) ==
    IF enc = "arrow:a1=0"
    THEN Frame("a1", <<Field("", LabelsA1, FieldTypeNullableFloat64, <<Cell(0)>>)>>)
    ELSE Frame("a2", <<Field("", LabelsA2, FieldTypeNullableFloat64, <<Cell(5)>>)>>)

\* tsdb.NewEncodedDataFrames(res.Frames).Decoded(): every frame or an error
Decoded(payload) ==
    IF \E i \in 1..Len(payload) : payload[i] = "arrow:corrupt"
    THEN [frames |-> <<>>, err |-> ErrDecode]
    ELSE [frames |-> [i \in 1..Len(payload) |-> DecodeFrame(payload[i])], err |-> Nil]

\* the orders in which a range over the map m may visit its keys
RangeOrders(m) ==
    {o \in [1..Cardinality(DOMAIN m) -> DOMAIN m] :
        \A i, j \in DOMAIN o : i # j => o[i] # o[j]}

\* executionResults and the pointer to it that Execute returns
ExecutionResults(error, results) ==
    [isNil |-> FALSE, AlertDefinitionID |-> 0, Error |-> error, Results |-> results]

NilExecutionResults ==
    [isNil |-> TRUE, AlertDefinitionID |-> 0, Error |-> Nil, Results |-> <<>>]

\* the loop without the refID check: every entry is decoded and the last wins
RECURSIVE ScanAnyEntry(_, _, _, _, _)
ScanAnyEntry(c, responses, order, i, acc) ==
    IF i > Len(order) THEN acc
    ELSE LET d == Decoded(responses[order[i]]) IN
         IF d.err # Nil
         THEN [acc EXCEPT !.Results = d.frames, !.Error = d.err, !.err = d.err,
                          !.decoded = @ \cup {order[i]}, !.returned = TRUE]
         ELSE ScanAnyEntry(c, responses, order, i + 1,
                  [acc EXCEPT !.Results = d.frames, !.decoded = @ \cup {order[i]}])

\* the loop over pbRes.Responses: entries of another refID are skipped, the
\* entry of c.RefID is decoded, and a decoding error ends Execute
RECURSIVE ScanResponses(_, _, _, _, _)
ScanResponses(c, responses, order, i, acc) ==
    IF i > Len(order) THEN acc
    ELSE IF order[i] # c.RefID THEN ScanResponses(c, responses, order, i + 1, acc)
    ELSE LET d == Decoded(responses[order[i]]) IN
         IF d.err # Nil
         THEN [acc EXCEPT !.Results = d.frames, !.Error = d.err, !.err = d.err,
                          !.decoded = @ \cup {order[i]}, !.returned = TRUE]
         ELSE ScanResponses(c, responses, order, i + 1,
                  [acc EXCEPT !.Results = d.frames, !.decoded = @ \cup {order[i]}])

\* Execute without the error check after TransformData
AfterTransformIgnoringError(c, outcome, order) ==
    LET scan == ScanResponses(c, outcome.Responses, order, 1,
                    [Results |-> <<>>, Error |-> Nil, err |-> Nil,
                     decoded |-> {}, returned |-> FALSE])
    IN  IF scan.returned
        THEN [ret |-> ExecutionResults(scan.Error, scan.Results), err |-> scan.err,
              decoded |-> scan.decoded]
        ELSE IF Len(scan.Results) = 0
        THEN [ret |-> ExecutionResults(ErrNoResults, scan.Results), err |-> ErrNoResults,
              decoded |-> scan.decoded]
        ELSE [ret |-> ExecutionResults(Nil, scan.Results), err |-> Nil,
              decoded |-> scan.decoded]

\* Execute from the return of TransformData on: the error check, the loop over
\* the responses and the check for an empty result
AfterTransform(c, outcome, order) ==
    IF outcome.err # Nil
    THEN [ret |-> ExecutionResults(Nil, <<>>), err |-> outcome.err, decoded |-> {}]
    ELSE LET scan == ScanResponses(c, outcome.Responses, order, 1,
                         [Results |-> <<>>, Error |-> Nil, err |-> Nil,
                          decoded |-> {}, returned |-> FALSE])
         IN  IF scan.returned
             THEN [ret |-> ExecutionResults(scan.Error, scan.Results), err |-> scan.err,
                   decoded |-> scan.decoded]
             ELSE IF Len(scan.Results) = 0
             THEN [ret |-> ExecutionResults(ErrNoResults, scan.Results),
                   err |-> ErrNoResults, decoded |-> scan.decoded]
             ELSE [ret |-> ExecutionResults(Nil, scan.Results), err |-> Nil,
                   decoded |-> scan.decoded]

\* Condition.Execute
Execute ==
    /\ pc = "ready"
    /\ pc' = "done"
    /\ IF ~IsValid(cond)
       THEN /\ execRet' = NilExecutionResults
            /\ execErr' = ErrInvalidConditions
            /\ UNCHANGED <<pbQuery, transformCalls, transformErr, pbRes, decoded>>
       ELSE \E outcome \in TransformOutcomes :
            \E order \in RangeOrders(outcome.Responses) :
                LET r == AfterTransform(cond, outcome, order) IN
                /\ pbQuery' = BuildQueries(cond)
                /\ transformCalls' = transformCalls + 1
                /\ transformErr' = outcome.err
                /\ pbRes' = outcome.Responses
                /\ decoded' = r.decoded
                /\ execRet' = r.ret
                /\ execErr' = r.err
    /\ UNCHANGED <<cond, execIn, evalOut, evalResults, dataFrame>>

NoEvalOut == [kind |-> "none", results |-> <<>>, err |-> Nil]
NoFrame == Frame("", <<>>)

InitExec ==
    /\ pc = "ready"
    /\ cond \in Conditions
    /\ pbQuery = <<>>
    /\ transformCalls = 0
    /\ transformErr = Nil
    /\ pbRes = EmptyResponses
    /\ decoded = {}
    /\ execRet = NilExecutionResults
    /\ execErr = Nil
    /\ execIn = <<>>
    /\ evalOut = NoEvalOut
    /\ evalResults = <<>>
    /\ dataFrame = NoFrame

NextExec == Execute

SpecExec == InitExec /\ [][NextExec]_vars

----------------------------------------------------------------------------
(* EvaluateExecutionResult *)

\* a vector of n cells whose first cell is c and whose other cells hold 0
VectorOf(n, c) == [i \in 1..n |-> IF i = 1 THEN c ELSE Cell(0)]

FloatVectors ==
    {<<>>} \cup {VectorOf(n, c) : n \in 1..MaxRows, c \in {NilCell, Cell(0), Cell(5)}}

\* frames of one nullable-float field, of zero to MaxRows rows
FloatFrames ==
    {Frame("float", <<Field("", l, FieldTypeNullableFloat64, v)>>) :
        l \in LabelSets, v \in FloatVectors}

\* frames of one string field
StringFrames ==
    {Frame("string", <<Field("", LabelsA2, FieldTypeString, VectorOf(n, Cell(0)))>>) :
        n \in 0..1}

\* the frame without fields
EmptyFrames == {Frame("empty", <<>>)}

\* frames of two fields, of equal or of different lengths
TwoFieldFrames ==
    {Frame("two", <<Field("", LabelsA1, FieldTypeNullableFloat64, VectorOf(n, Cell(0))),
                    Field("", LabelsA2, FieldTypeNullableFloat64, VectorOf(m, Cell(5)))>>) :
        n \in 0..MaxRows, m \in 0..MaxRows}

Frames == FloatFrames \cup StringFrames \cup EmptyFrames \cup TwoFieldFrames

ErrRowLen == "unable to get frame row length"
ErrRowLength == "invalid frame: row length"
ErrFieldLength == "invalid frame: field length"
ErrFieldType == "invalid frame: field type"
ErrLabels == "invalid frame: frames cannot uniquely be identified by its labels"
ErrUnsupportedType == "unsupported field type"
PanicIndex == "runtime error: index out of range"

\* Frame.RowLen(): 0 without fields, an error when the fields differ in length
RowLen(f) ==
    IF Len(f.Fields) = 0 THEN [n |-> 0, err |-> Nil]
    ELSE IF \E i \in 2..Len(f.Fields) : Len(f.Fields[i].vector) # Len(f.Fields[1].vector)
    THEN [n |-> 0, err |-> "frame has different field lengths"]
    ELSE [n |-> Len(f.Fields[1].vector), err |-> Nil]

\* Field.FloatAt(idx), idx counted from 0: the vector is indexed without a
\* bounds check, a nil *float64 reads as NaN, other types are an error
FloatAt(fld, idx) ==
    IF fld.Type # FieldTypeNullableFloat64
    THEN [panic |-> FALSE, err |-> ErrUnsupportedType, isNaN |-> FALSE, val |-> 0]
    ELSE IF idx + 1 > Len(fld.vector)
    THEN [panic |-> TRUE, err |-> Nil, isNaN |-> FALSE, val |-> 0]
    ELSE IF fld.vector[idx + 1].isNil
    THEN [panic |-> FALSE, err |-> Nil, isNaN |-> TRUE, val |-> 0]
    ELSE [panic |-> FALSE, err |-> Nil, isNaN |-> FALSE, val |-> fld.vector[idx + 1].v]

\* result
Result(instance, state) == [Instance |-> instance, State |-> state]

\* the ways a call ends: it returns results, it returns (nil, err), it panics
Returned(rs) == [kind |-> "ok", results |-> rs, err |-> Nil]
Failed(e)    == [kind |-> "err", results |-> <<>>, err |-> e]
Panicked(e)  == [kind |-> "panic", results |-> <<>>, err |-> e]

\* the loop of EvaluateExecutionResult from frame i on; labels holds the
\* label strings of the frames before it
RECURSIVE EvaluateFrom(_, _, _, _)
EvaluateFrom(frames, i, rs, labels) ==
    IF i > Len(frames) THEN Returned(rs)
    ELSE LET f == frames[i]
             rowLen == RowLen(f)
         IN  IF rowLen.err # Nil THEN Failed(ErrRowLen)
             ELSE IF rowLen.n > 1 THEN Failed(ErrRowLength)
             ELSE IF Len(f.Fields) > 1 THEN Failed(ErrFieldLength)
             ELSE IF Len(f.Fields) = 0 THEN Panicked(PanicIndex)
             ELSE IF f.Fields[1].Type # FieldTypeNullableFloat64 THEN Failed(ErrFieldType)
             ELSE LET labelsStr == LabelsString(f.Fields[1].Labels) IN
                  IF labelsStr \in labels THEN Failed(ErrLabels)
                  ELSE LET read == FloatAt(f.Fields[1], 0) IN
                       IF read.panic THEN Panicked(PanicIndex)
                       ELSE LET state == IF read.err # Nil \/ read.isNaN \/ read.val # 0
                                         THEN Alerting ELSE normal
                            IN  EvaluateFrom(frames, i + 1,
                                    Append(rs, Result(f.Fields[1].Labels, state)),
                                    labels \cup {labelsStr})

\* EvaluateExecutionResult
EvaluateExecutionResult ==
    /\ pc = "ready"
    /\ pc' = "done"
    /\ evalOut' = EvaluateFrom(execIn, 1, <<>>, {})
    /\ UNCHANGED <<cond, pbQuery, transformCalls, transformErr, pbRes, decoded,
                   execRet, execErr, execIn, evalResults, dataFrame>>

InitEval ==
    /\ pc = "ready"
    /\ cond = [RefID |-> "A", QueriesAndExpressions |-> <<>>]
    /\ pbQuery = <<>>
    /\ transformCalls = 0
    /\ transformErr = Nil
    /\ pbRes = EmptyResponses
    /\ decoded = {}
    /\ execRet = NilExecutionResults
    /\ execErr = Nil
    /\ execIn \in SeqUpTo(Frames, MaxFrames)
    /\ evalOut = NoEvalOut
    /\ evalResults = <<>>
    /\ dataFrame = NoFrame

NextEval == EvaluateExecutionResult

SpecEval == InitEval /\ [][NextEval]_vars

----------------------------------------------------------------------------
(* results.AsDataFrame *)

Results == {Result(l, s) : l \in LabelSets, s \in {normal, Alerting}}

\* the field with the comparison inverted to State == normal
NewFieldInverted(r) == Field("", r.Instance, FieldTypeBool, <<r.State = normal>>)

\* data.NewField("", evalResult.Instance, []bool{evalResult.State != normal})
NewField(r) == Field("", r.Instance, FieldTypeBool, <<r.State # normal>>)

\* the frame of one field per result, in the order of the results
NewFrame(rs) == Frame("", [i \in 1..Len(rs) |-> NewField(rs[i])])

\* results.AsDataFrame
AsDataFrame ==
    /\ pc = "ready"
    /\ pc' = "done"
    /\ dataFrame' = NewFrame(evalResults)
    /\ UNCHANGED <<cond, pbQuery, transformCalls, transformErr, pbRes, decoded,
                   execRet, execErr, execIn, evalOut, evalResults>>

InitFrame ==
    /\ pc = "ready"
    /\ cond = [RefID |-> "A", QueriesAndExpressions |-> <<>>]
    /\ pbQuery = <<>>
    /\ transformCalls = 0
    /\ transformErr = Nil
    /\ pbRes = EmptyResponses
    /\ decoded = {}
    /\ execRet = NilExecutionResults
    /\ execErr = Nil
    /\ execIn = <<>>
    /\ evalOut = NoEvalOut
    /\ evalResults \in SeqUpTo(Results, MaxResults)
    /\ dataFrame = NoFrame

NextFrame == AsDataFrame

SpecFrame == InitFrame /\ [][NextFrame]_vars

----------------------------------------------------------------------------
(* Properties of Condition.Execute, checked under SpecExec *)

ExecDone == pc = "done"
CondEmpty == Len(cond.QueriesAndExpressions) = 0

\* C1: for a Condition with an empty query list Execute returns the
\* invalid-condition error and makes no TransformData call; a call is made
\* only for a Condition with at least one query.
C1_EmptyConditionFailsWithoutCall ==
    /\ (ExecDone /\ CondEmpty) =>
           /\ execErr = ErrInvalidConditions
           /\ transformCalls = 0
           /\ pbQuery = <<>>
    /\ transformCalls > 0 => ~CondEmpty

C1_Witness ==
    ExecDone /\ CondEmpty /\ execErr = ErrInvalidConditions /\ transformCalls = 0

\* C4: after a successful TransformData call only the entry of the
\* Condition's RefID is decoded; Execute fails with "no GEL results" exactly
\* when no entry has that RefID or that entry decodes to zero frames; and a
\* successful Execute returns the decoded frames of that entry, which are
\* not empty.
C4_OnlyMatchingEntryIsUsed ==
    (ExecDone /\ ~CondEmpty /\ transformErr = Nil) =>
        LET matches == cond.RefID \in DOMAIN pbRes IN
        /\ decoded \subseteq {cond.RefID}
        /\ (execErr = ErrNoResults) <=>
               (\/ ~matches
                \/ /\ Decoded(pbRes[cond.RefID]).err = Nil
                   /\ Len(Decoded(pbRes[cond.RefID]).frames) = 0)
        /\ execErr = Nil =>
               /\ matches
               /\ ~execRet.isNil
               /\ execRet.Results = Decoded(pbRes[cond.RefID]).frames
               /\ Len(execRet.Results) > 0

C4_Witness ==
    /\ ExecDone /\ ~CondEmpty /\ transformErr = Nil /\ execErr = Nil
    /\ DOMAIN pbRes = RefIDs
    /\ \E other \in RefIDs \ {cond.RefID} :
           /\ Len(pbRes[other]) > 0
           /\ pbRes[other] # pbRes[cond.RefID]
    /\ Len(execRet.Results) > 0

\* ms is ns / 1,000,000 truncated toward zero: it is no further from zero
\* than ns and less than one millisecond away from it
TruncatedTowardZero(ns, ms) ==
    /\ Abs(ms * NanosPerMilli) <= Abs(ns)
    /\ Abs(ns - ms * NanosPerMilli) < NanosPerMilli

\* C5: for a valid Condition the request holds one query descriptor per query
\* of the Condition, in the same order, with payload, RefID, query type and
\* max data points unchanged, and with the interval and the bounds of the time
\* range in whole milliseconds, truncated toward zero also when negative.
C5_RequestMirrorsCondition ==
    (ExecDone /\ ~CondEmpty) =>
        /\ Len(pbQuery) = Len(cond.QueriesAndExpressions)
        /\ \A i \in 1..Len(cond.QueriesAndExpressions) :
               LET q == cond.QueriesAndExpressions[i]
                   d == pbQuery[i]
               IN  /\ d.Json = q.JSON
                   /\ d.RefId = q.RefID
                   /\ d.QueryType = q.QueryType
                   /\ d.MaxDataPoints = q.MaxDataPoints
                   /\ TruncatedTowardZero(q.Interval, d.IntervalMS)
                   /\ TruncatedTowardZero(q.From, d.TimeRange.FromEpochMS)
                   /\ TruncatedTowardZero(q.To, d.TimeRange.ToEpochMS)

C5_Witness ==
    /\ ExecDone
    /\ Len(pbQuery) = 2
    /\ pbQuery[1].RefId # pbQuery[2].RefId
    /\ pbQuery[1].Json # pbQuery[2].Json
    /\ cond.QueriesAndExpressions[1].From = -1500001
    /\ pbQuery[1].TimeRange.FromEpochMS = -1
    /\ pbQuery[1].IntervalMS = 1500
    /\ cond.QueriesAndExpressions[2].Interval = -1999999
    /\ pbQuery[2].IntervalMS = -1

\* C7: an executionResults returned by Execute together with an error has
\* that error in its Error field, whether the failure is the remote call's,
\* the decoding's or the empty result's.
C7_ErrorFieldSetOnEveryFailure ==
    (ExecDone /\ execErr # Nil /\ ~execRet.isNil) => execRet.Error = execErr

\* C8: an invocation of Execute calls TransformData at most once; when the
\* call returns an error, Execute returns exactly that error after that one
\* call, having decoded no response entry, and the result holds no frames.
C8_RemoteErrorIsTerminal ==
    /\ transformCalls <= 1
    /\ (ExecDone /\ transformErr # Nil) =>
           /\ execErr = transformErr
           /\ transformCalls = 1
           /\ decoded = {}
           /\ Len(execRet.Results) = 0

C8_Witness ==
    /\ ExecDone /\ ~CondEmpty
    /\ transformErr = "context canceled"
    /\ execErr = "context canceled"
    /\ transformCalls = 1

----------------------------------------------------------------------------
(* Properties of results.AsDataFrame, checked under SpecFrame *)

\* C6: the frame AsDataFrame returns has one field per result, in the order
\* of the results, each with the labels of its result and the single boolean
\* value that is true iff the state of the result is not Normal.
C6_OneBooleanColumnPerResult ==
    pc = "done" =>
        /\ Len(dataFrame.Fields) = Len(evalResults)
        /\ \A i \in 1..Len(evalResults) :
               /\ dataFrame.Fields[i].Labels = evalResults[i].Instance
               /\ dataFrame.Fields[i].vector = <<evalResults[i].State # normal>>

C6_Witness ==
    /\ pc = "done"
    /\ Len(evalResults) = 2
    /\ evalResults[1] = Result(LabelsA1, Alerting)
    /\ evalResults[2] = Result(LabelsA2, normal)
    /\ Len(dataFrame.Fields) = 2
    /\ dataFrame.Fields[1].vector = <<TRUE>>
    /\ dataFrame.Fields[2].vector = <<FALSE>>

----------------------------------------------------------------------------
(* Properties of EvaluateExecutionResult, checked under SpecEval *)

OneFloatField(f) ==
    Len(f.Fields) = 1 /\ f.Fields[1].Type = FieldTypeNullableFloat64

Rows(f) == Len(f.Fields[1].vector)

\* the label string of frame i differs from those of the frames before it
LabelsUnseen(frames, i) ==
    \A j \in 1..(i - 1) :
        Len(frames[j].Fields) >= 1 =>
            LabelsString(frames[j].Fields[1].Labels) # LabelsString(frames[i].Fields[1].Labels)

\* frame i has one nullable-float field of exactly one row and unseen labels
Regular(frames, i) ==
    OneFloatField(frames[i]) /\ Rows(frames[i]) = 1 /\ LabelsUnseen(frames, i)

\* frame i breaks one of the four shape rules
BreaksShapeRule(frames, i) ==
    LET f == frames[i] IN
    \/ \E k \in 1..Len(f.Fields) : Len(f.Fields[k].vector) > 1
    \/ Len(f.Fields) > 1
    \/ Len(f.Fields) >= 1 /\ f.Fields[1].Type # FieldTypeNullableFloat64
    \/ Len(f.Fields) >= 1 /\ ~LabelsUnseen(frames, i)

\* C2: when every frame has at most one row, exactly one nullable-float field
\* and labels not seen earlier, the evaluation returns one result per frame,
\* in order, with the labels of the frame's field, Normal iff the value at
\* row 0 is read and is zero, and Alerting otherwise.
C2_OneVerdictPerSeries ==
    (pc = "done"
     /\ \A i \in 1..Len(execIn) :
            OneFloatField(execIn[i]) /\ Rows(execIn[i]) <= 1 /\ LabelsUnseen(execIn, i))
    => /\ evalOut.kind = "ok"
       /\ Len(evalOut.results) = Len(execIn)
       /\ \A i \in 1..Len(execIn) :
              LET fld == execIn[i].Fields[1] IN
              /\ evalOut.results[i].Instance = fld.Labels
              /\ evalOut.results[i].State \in {normal, Alerting}
              /\ (evalOut.results[i].State = normal) <=>
                     (Len(fld.vector) = 1 /\ ~fld.vector[1].isNil /\ fld.vector[1].v = 0)

\* C3: when some frame, at any position, breaks a shape rule, the evaluation
\* returns an error and no results; the results of a successful evaluation
\* have pairwise distinct label strings.
C3_ShapeViolationAbortsEvaluation ==
    /\ (pc = "done" /\ \E i \in 1..Len(execIn) : BreaksShapeRule(execIn, i)) =>
           (evalOut.kind = "err" /\ evalOut.err # Nil /\ Len(evalOut.results) = 0)
    /\ (pc = "done" /\ evalOut.kind = "ok") =>
           \A i, j \in 1..Len(evalOut.results) :
               i # j => LabelsString(evalOut.results[i].Instance)
                            # LabelsString(evalOut.results[j].Instance)

\* C9: a frame whose field count is not one, reached after regular frames
\* only, makes the evaluation return a validation error.
C9_FieldCountOtherThanOneIsRejected ==
    (pc = "done"
     /\ \E i \in 1..Len(execIn) :
            /\ Len(execIn[i].Fields) # 1
            /\ \A j \in 1..(i - 1) : Regular(execIn, j))
    => evalOut.kind = "err"

\* C10: a frame of more than one row, reached after regular frames only, is
\* rejected for its row count whatever its fields; and when every frame has
\* one nullable-float field, unseen labels and at most one row, the
\* evaluation succeeds and gives every frame of zero rows the verdict Alerting.
C10_RowCountRule ==
    /\ (pc = "done"
        /\ \E i \in 1..Len(execIn) :
               /\ RowLen(execIn[i]).err = Nil /\ RowLen(execIn[i]).n > 1
               /\ \A j \in 1..(i - 1) : Regular(execIn, j))
       => (evalOut.kind = "err" /\ evalOut.err = ErrRowLength)
    /\ (pc = "done"
        /\ \A i \in 1..Len(execIn) :
               OneFloatField(execIn[i]) /\ Rows(execIn[i]) <= 1 /\ LabelsUnseen(execIn, i))
       => /\ evalOut.kind = "ok"
          /\ \A i \in 1..Len(execIn) :
                 Rows(execIn[i]) = 0 => evalOut.results[i].State = Alerting

====
